---- MODULE Spec2Model ----
(***************************************************************************)
(* Model of custom_components/weatherdotcom/coordinator.py:                *)
(* WeatherUpdateCoordinator, the polling coordinator of the Weather.com    *)
(* integration.  A refresh (get_weather) issues two sequential HTTP GETs,  *)
(* validates each response, merges them and stores the merge in self.data; *)
(* get_condition / get_forecast read the stored snapshot.                  *)
(*                                                                         *)
(* Python values are modelled as tagged records (JNull .. JObj), text as a *)
(* sequence of text pieces, and the completion of a Python call as a       *)
(* record saying whether it returned a value or raised an exception.       *)
(***************************************************************************)
EXTENDS Integers, Sequences, FiniteSets, TLC

\* ------------------------------------------------------------------ bounds
\* Longest "errors" array a response carries.
MaxErrors == 2
\* Most calendar days a forecast response carries (two dayparts per day).
MaxDays == 2
\* Largest forecast period an accessor call asks for.
MaxPeriod == 4
MaxFailures == 2

\* ------------------------------------------------------- Python/JSON values
JNull == [t |-> "null"]
JInt(n) == [t |-> "int", v |-> n]
JStr(s) == [t |-> "str", v |-> s]
JArr(s) == [t |-> "arr", v |-> s]
JObj(f) == [t |-> "obj", v |-> f]
None == JNull

\* Python truth value of a value (used by `or` and by `if errors := ...`).
Truthy(x) ==
    CASE x.t = "null" -> FALSE
      [] x.t = "int"  -> x.v # 0
      [] x.t = "str"  -> Len(x.v) > 0
      [] x.t = "arr"  -> Len(x.v) > 0
      [] x.t = "obj"  -> DOMAIN x.v # {}

\* a or b
PyOr(a, b) == IF Truthy(a) THEN a ELSE b

\* Completion of a call: a returned value, or a raised exception with its text.
Return(v) == [exc |-> "none", val |-> v, msg |-> <<>>]
Raise(e, m) == [exc |-> e, val |-> None, msg |-> m]

\* x[key] for a string key.
GetKey(x, key) ==
    CASE x.t = "obj" -> IF key \in DOMAIN x.v THEN Return(x.v[key])
                        ELSE Raise("KeyError", <<key>>)
      [] x.t = "arr" -> Raise("TypeError", <<"list indices must be integers or slices, not str">>)
      [] x.t = "str" -> Raise("TypeError", <<"string indices must be integers, not 'str'">>)
      [] x.t = "int" -> Raise("TypeError", <<"'int' object is not subscriptable">>)
      [] x.t = "null" -> Raise("TypeError", <<"'NoneType' object is not subscriptable">>)

\* seq[i] of a Python list: a negative index counts from the end.
PyIndex(seq, i) ==
    LET n == Len(seq)
        j == IF i < 0 THEN i + n ELSE i
    IN  IF 0 <= j /\ j < n THEN Return(seq[j + 1])
        ELSE Raise("IndexError", <<"list index out of range">>)

\* x[i] for an integer subscript (no text value is ever subscripted here).
GetIndex(x, i) ==
    CASE x.t = "arr" -> PyIndex(x.v, i)
      [] x.t = "obj" -> Raise("KeyError", <<"int">>)
      [] x.t = "int" -> Raise("TypeError", <<"'int' object is not subscriptable">>)
      [] x.t = "null" -> Raise("TypeError", <<"'NoneType' object is not subscriptable">>)

\* r[key] and r[i] on the completion of a subexpression: an exception raised
\* by the subexpression propagates.
KeyOf(r, key) == IF r.exc # "none" THEN r ELSE GetKey(r.val, key)
IndexOf(r, i) == IF r.exc # "none" THEN r ELSE GetIndex(r.val, i)

\* sep.join(parts): parts is a sequence of texts.
RECURSIVE Join(_, _)
Join(sep, parts) ==
    IF Len(parts) = 0 THEN <<>>
    ELSE IF Len(parts) = 1 THEN parts[1]
    ELSE parts[1] \o sep \o Join(sep, Tail(parts))

\* The characters of a text, whatever pieces it is cut into.
RECURSIVE Flat(_)
Flat(text) == IF Len(text) = 0 THEN "" ELSE text[1] \o Flat(Tail(text))

\* type(x).__name__
TypeName(x) ==
    CASE x.t = "null" -> "NoneType"
      [] x.t = "int"  -> "int"
      [] x.t = "str"  -> "str"
      [] x.t = "arr"  -> "list"
      [] x.t = "obj"  -> "dict"

\* word in x, for a text word.  A text x holds the word as a substring, and
\* texts are cut so that an occurrence of the word looked for ('errors') is a
\* piece of its own; a list holds the word if an element equals it.
In(word, x) ==
    CASE x.t = "obj" -> Return(word \in DOMAIN x.v)
      [] x.t = "arr" -> Return(\E i \in 1..Len(x.v) :
                                 x.v[i].t = "str" /\ Flat(x.v[i].v) = word)
      [] x.t = "str" -> Return(\E i \in 1..Len(x.v) : x.v[i] = word)
      [] OTHER -> Raise("TypeError",
                        <<"argument of type '", TypeName(x), "' is not iterable">>)

\* {**a, **b} on two dict payloads: b's value wins on a shared key.
MergeLeftBiased(a, b) ==
    [k \in DOMAIN a \cup DOMAIN b |-> IF k \in DOMAIN a THEN a[k] ELSE b[k]]
Merge(a, b) ==
    [k \in DOMAIN a \cup DOMAIN b |-> IF k \in DOMAIN b THEN b[k] ELSE a[k]]

\* {**a, **b} on two values: a value that is not a dict cannot be unpacked.
MergeValues(a, b) ==
    IF a.t # "obj" THEN Raise("TypeError", <<"'", TypeName(a), "' object is not a mapping">>)
    ELSE IF b.t # "obj"
    THEN Raise("TypeError", <<"'", TypeName(b), "' object is not a mapping">>)
    ELSE Return(JObj(Merge(a.v, b.v)))

\* int(period / 2): true division, then truncation toward zero.
IntHalfRoundUp(period) == (period + 1) \div 2
IntHalf(period) == IF period >= 0 THEN period \div 2 ELSE -((-period) \div 2)

\* ------------------------------------------------------------- field names
FIELD_CONDITION_HUMIDITY == "relativeHumidity"
FIELD_CONDITION_WINDDIR == "windDirection"
FIELD_DAYPART == "daypart"
FIELD_FORECAST_VALIDTIMEUTC == "validTimeUtc"
FIELD_FORECAST_TEMPERATUREMAX == "temperatureMax"
FIELD_FORECAST_TEMPERATUREMIN == "temperatureMin"
FIELD_FORECAST_CALENDARDAYTEMPERATUREMAX == "calendarDayTemperatureMax"
FIELD_FORECAST_CALENDARDAYTEMPERATUREMIN == "calendarDayTemperatureMin"

\* --------------------------------------------------------------- templates
_RESOURCESHARED == <<"&format=", "json", "&apiKey=", "{apiKey}", "&units=", "{units}">>
_RESOURCECURRENT ==
    <<"https://api.weather.com/v3/wx/observations/current",
      "?geocode=", "{latitude}", ",", "{longitude}">>
_RESOURCEFORECASTDAILY ==
    <<"https://api.weather.com/v3/wx/forecast/daily/5day",
      "?geocode=", "{latitude}", ",", "{longitude}">>

VARIABLES
    config,         \* the values __init__ copies from WeatherUpdateCoordinatorConfig
    data,           \* self.data: None or the stored snapshot
    pc,             \* the await get_weather is suspended at: idle, get_current (129),
                    \* json_current (130), get_forecast (137), json_forecast (138), done
    resp_current,   \* what the current-conditions GET produced in this refresh
    resp_forecast,  \* what the daily-forecast GET produced in this refresh
    ret,            \* how the last get_weather ended (returned value or raised exception)
    log,            \* the _LOGGER.error records of this refresh
    before,         \* self.data as it was when this refresh started
    stored,         \* the two responses of the last refresh that passed both validations
    acc,            \* the last accessor call and how it ended
    requests,       \* the URLs of the GETs this refresh has issued, in order
    _features,      \* self._features
    units_of_measurement,  \* self.units_of_measurement
    _tranfile,      \* how get_tran_file ended in __init__: the table it returned, or what it raised
    files,          \* the translation files of the installation, by language subtag
    icon_condition_map,    \* the class attribute icon_condition_map
    failures,       \* how many refreshes in a row had ended without a snapshot, up to the last one
    other           \* a second get_weather invocation that overlaps the first

\* What __init__ sets and no method assigns afterwards.
constructed == <<config, units_of_measurement, _tranfile, files, icon_condition_map>>

vars == <<config, data, pc, resp_current, resp_forecast, ret, log, before, stored, acc,
          requests, _features, units_of_measurement, _tranfile, files,
          icon_condition_map, failures, other>>

\* ------------------------------------------------------------ configuration
\* The configurations a coordinator is constructed with.  The language code is
\* a text cut at its dashes.
Configs ==
    { [api_key |-> "KEY", location_name |-> "Home", numeric_precision |-> np.p,
       unit_system_api |-> np.u, unit_system |-> np.u, lang |-> <<"en", "-", "US">>,
       calendarday |-> FALSE, latitude |-> "37.98", longitude |-> "23.72",
       forecast_mode |-> "daily", forecast_enable |-> TRUE]
      : np \in { [p |-> "none", u |-> "m"], [p |-> "decimal", u |-> "e"] } }

\* The text str.format puts in the place of one piece of a template.
Field(piece, c) ==
    CASE piece = "{apiKey}" -> <<c.api_key>>
      [] piece = "{language}" -> c.lang
      [] piece = "{latitude}" -> <<c.latitude>>
      [] piece = "{longitude}" -> <<c.longitude>>
      [] piece = "{numericPrecision}" -> <<c.numeric_precision>>
      [] piece = "{units}" -> <<c.unit_system_api>>
      [] OTHER -> <<piece>>

\* str.format on a template: each placeholder piece is replaced by its value.
RECURSIVE Format(_, _)
Format(template, c) ==
    IF Len(template) = 0 THEN <<>>
    ELSE Field(template[1], c) \o Format(Tail(template), c)

\* _build_url appending the precision parameter for every template.
_build_url_any_template(baseurl) ==
    LET withPrecision ==
            IF config.numeric_precision # "none"
            THEN baseurl \o <<"&numericPrecision=", "{numericPrecision}">>
            ELSE baseurl
    IN  Format(withPrecision \o <<"&language=", "{language}">> \o _RESOURCESHARED, config)

_build_url(baseurl) ==
    LET withPrecision ==
            IF baseurl = _RESOURCECURRENT /\ config.numeric_precision # "none"
            THEN baseurl \o <<"&numericPrecision=", "{numericPrecision}">>
            ELSE baseurl
    IN  Format(withPrecision \o <<"&language=", "{language}">> \o _RESOURCESHARED, config)

\* ------------------------------------------------------------ construction
\* The members of homeassistant.const the constructor picks, by their names.
MetricUnits ==
    <<"UnitOfTemperature.CELSIUS", "UnitOfLength.MILLIMETERS", "UnitOfLength.METERS",
      "UnitOfSpeed.KILOMETERS_PER_HOUR", "UnitOfPressure.MBAR",
      "UnitOfVolumetricFlux.MILLIMETERS_PER_HOUR", "PERCENTAGE">>
ImperialUnits ==
    <<"UnitOfTemperature.FAHRENHEIT", "UnitOfLength.INCHES", "UnitOfLength.FEET",
      "UnitOfSpeed.MILES_PER_HOUR", "UnitOfPressure.INHG",
      "UnitOfVolumetricFlux.INCHES_PER_HOUR", "PERCENTAGE">>

\* The tuple __init__ assigns to self.units_of_measurement.
UnitsOfMeasurementSwapped(unit_system_api) ==
    IF unit_system_api = "m" THEN ImperialUnits ELSE MetricUnits

UnitsOfMeasurement(unit_system_api) ==
    IF unit_system_api = "m" THEN MetricUnits ELSE ImperialUnits

\* text.split('-', 1)[0], for a text cut at its dashes: what stands before
\* the first '-', the whole text if there is none.
SplitFirst(pieces) ==
    LET dashes == { i \in 1..Len(pieces) : pieces[i] = "-" }
    IN  IF dashes = {} THEN pieces
        ELSE SubSeq(pieces, 1, (CHOOSE i \in dashes : \A j \in dashes : i <= j) - 1)

DOMAIN_NAME == "weatherdotcom"

\* f'{self._hass.config.config_dir}/custom_components/{DOMAIN}/weather_translations/'
tfiledir == <<"/config", "/custom_components/", DOMAIN_NAME, "/weather_translations/">>

\* f'{tfiledir}{tfilename}.json'
TranPath(tfilename) == tfiledir \o tfilename \o <<".json">>

\* json.load_json(path): the parsed content of the file, or the exception the
\* loader raises for a file that is missing or does not parse.
load_json(fs, path) ==
    IF Flat(path) \in DOMAIN fs THEN fs[Flat(path)]
    ELSE Raise("FileNotFoundError", path)

\* get_tran_file without the except clause.
get_tran_file_no_fallback(lang, fs) ==
    load_json(fs, TranPath(SplitFirst(lang)))

\* get_tran_file: the except clause catches every Exception and loads en.json,
\* whose own failure is not caught (a warning is logged on that path).
get_tran_file(lang, fs) ==
    LET tfilename == SplitFirst(lang)
        tfiledata == load_json(fs, TranPath(tfilename))
    IN  IF tfiledata.exc # "none"
        THEN load_json(fs, TranPath(<<"en">>))
        ELSE tfiledata

\* ----------------------------------------------------------- small methods
\* request_feature: set.add.
request_feature_toggle(features, feature) ==
    IF feature \in features THEN features \ {feature} ELSE features \cup {feature}

request_feature(features, feature) == features \cup {feature}

\* ICON_CONDITION_MAP: condition names with their icon-code sets, in the
\* dict's iteration order.  Code 44 is in no set; code 30 is in two.
ICON_CONDITION_MAP ==
    << [condition |-> "clear-night", iconcodes |-> {31, 33}],
       [condition |-> "cloudy", iconcodes |-> {26, 27, 30}],
       [condition |-> "partlycloudy", iconcodes |-> {29, 30}],
       [condition |-> "sunny", iconcodes |-> {32, 36}] >>

\* _iconcode_to_condition with the scan returning the last match.
_iconcode_to_condition_last(map, icon_code) ==
    LET hits == { i \in 1..Len(map) : icon_code \in map[i].iconcodes }
    IN  IF hits = {} THEN Return(None)
        ELSE Return(JStr(<<map[CHOOSE i \in hits : \A j \in hits : j <= i].condition>>))

\* _iconcode_to_condition: the loop returns at the first entry whose set holds
\* the code; after the loop a warning is logged and None returned.
_iconcode_to_condition(map, icon_code) ==
    LET hits == { i \in 1..Len(map) : icon_code \in map[i].iconcodes }
    IN  IF hits = {} THEN Return(None)
        ELSE Return(JStr(<<map[CHOOSE i \in hits : \A j \in hits : i <= j].condition>>))

\* ------------------------------------------------------ response validation
\* What `for e in errors` iterates over when errors is a list (its elements)
\* or a text (its characters; a piece stands for its characters, each of them
\* a text).
Elements(errors) ==
    CASE errors.t = "arr" -> errors.v
      [] errors.t = "str" -> [i \in 1..Len(errors.v) |-> JStr(<<errors.v[i]>>)]

\* [e['message'] for e in es]: the first subscript that raises ends the
\* comprehension.
MessagesOf(es) ==
    LET bad == { i \in 1..Len(es) : GetKey(es[i], "message").exc # "none" }
    IN  IF bad # {}
        THEN GetKey(es[CHOOSE i \in bad : \A j \in bad : i <= j], "message")
        ELSE Return(JArr([i \in 1..Len(es) |-> GetKey(es[i], "message").val]))

\* [e['message'] for e in errors].  A dict is iterated over its keys in the
\* order of insertion, which a dict value here does not carry: every key is a
\* text and the subscript of a text raises the same exception, so the
\* comprehension ends the same way whichever key comes first.
Messages(errors) ==
    IF errors.t = "obj"
    THEN IF DOMAIN errors.v = {} THEN Return(JArr(<<>>))
         ELSE LET first == { GetKey(JStr(<<k>>), "message") : k \in DOMAIN errors.v }
              IN  CHOOSE r \in first : \A q \in first : q = r
    ELSE MessagesOf(Elements(errors))

\* sep.join(items): the first item that is not a text raises TypeError.
JoinValues(sep, items) ==
    LET bad == { i \in 1..Len(items) : items[i].t # "str" }
    IN  IF bad # {}
        THEN LET i == CHOOSE i \in bad : \A j \in bad : i <= j
             IN  Raise("TypeError",
                       <<"sequence item ", ToString(i - 1), ": expected str instance, ",
                         TypeName(items[i]), " found">>)
        ELSE Return(Join(sep, [i \in 1..Len(items) |-> items[i].v]))

\* _check_errors(url, response), one subexpression after the other; an
\* exception raised by one of them ends the call.  The separator of the join is
\* the f-string and the literal '; ' that follows it, which Python concatenates
\* before .join.
_check_errors(url, response) ==
    LET Joined(text) ==
            IF text.exc # "none" THEN text ELSE Raise("ValueError", text.val)
        Listed(messages) ==
            IF messages.exc # "none" THEN messages
            ELSE Joined(JoinValues(<<"Error from ">> \o url \o <<": ", "; ">>, messages.val.v))
        Fetched(errors) ==
            IF errors.exc # "none" THEN errors
            ELSE IF ~Truthy(errors.val) THEN Return(None)
            ELSE IF errors.val.t = "int"
            THEN Raise("TypeError", <<"'int' object is not iterable">>)
            ELSE Listed(Messages(errors.val))
        Tested(has) ==
            IF has.exc # "none" THEN has
            ELSE IF ~has.val THEN Return(None)
            ELSE Fetched(GetKey(response, "errors"))
    IN  Tested(In("errors", response))

\* One `with async_timeout.timeout(10)` block: the GET, the null check and
\* _check_errors.  `o` is what the HTTP client produced.
FetchBlockNoNullCheck(url, o, noResult) ==
    IF o.kind = "timeout" THEN Raise("TimeoutError", <<>>)
    ELSE IF o.kind = "client_error" THEN Raise("ClientError", <<>>)
    ELSE LET c == _check_errors(url, o.body)
         IN  IF c.exc # "none" THEN c ELSE Return(o.body)
FetchBlock(url, o, noResult) ==
    IF o.kind = "timeout" THEN Raise("TimeoutError", <<>>)
    ELSE IF o.kind = "client_error" THEN Raise("ClientError", <<>>)
    ELSE IF o.body = None THEN Raise("ValueError", <<noResult>>)
    ELSE LET c == _check_errors(url, o.body)
         IN  IF c.exc # "none" THEN c ELSE Return(o.body)

\* The except clauses of get_weather: a handled exception is logged and the
\* function falls off its end (returns None); any other exception propagates.
ExceptClauses(r) ==
    IF r.exc = "ValueError"
    THEN [ret |-> Return(None),
          log |-> << [level |-> "error", fmt |-> "Check Weather.com API %s", args |-> r.msg] >>]
    ELSE IF r.exc \in {"TimeoutError", "ClientError"}
    THEN [ret |-> Return(None),
          log |-> << [level |-> "error", fmt |-> "Error fetching Weather.com data: %s",
                      args |-> <<r.exc, "()">>] >>]
    ELSE [ret |-> r, log |-> <<>>]

NoRet == [exc |-> "pending", val |-> None, msg |-> <<>>]

\* get_weather from its start to the end of the first block, given self.data = d.
AfterCurrentStoresEarly(d, url, o) ==
    LET r == FetchBlock(url, o, "NO CURRENT RESULT")
    IN  IF r.exc = "none"
        THEN [pc |-> "get_forecast", data |-> r.val, ret |-> NoRet, log |-> <<>>]
        ELSE [pc |-> "done", data |-> d, ret |-> ExceptClauses(r).ret,
              log |-> ExceptClauses(r).log]
AfterCurrent(d, url, o) ==
    LET r == FetchBlock(url, o, "NO CURRENT RESULT")
    IN  IF r.exc = "none"
        THEN [pc |-> "get_forecast", data |-> d, ret |-> NoRet, log |-> <<>>]
        ELSE [pc |-> "done", data |-> d, ret |-> ExceptClauses(r).ret,
              log |-> ExceptClauses(r).log]

\* get_weather from the second block to its end, storing only a first snapshot.
AfterForecastKeepsFirst(d, rc, url, o) ==
    LET r == FetchBlock(url, o, "NO FORECAST RESULT")
        result == MergeValues(rc, r.val)
    IN  IF r.exc = "none" /\ result.exc = "none"
        THEN [pc |-> "done", data |-> IF d = None THEN result.val ELSE d,
              ret |-> result, log |-> <<>>]
        ELSE IF r.exc = "none"
        THEN [pc |-> "done", data |-> d, ret |-> ExceptClauses(result).ret,
              log |-> ExceptClauses(result).log]
        ELSE [pc |-> "done", data |-> d, ret |-> ExceptClauses(r).ret,
              log |-> ExceptClauses(r).log]

\* get_weather from the second block to its end; rc is result_current.
AfterForecast(d, rc, url, o) ==
    LET r == FetchBlock(url, o, "NO FORECAST RESULT")
        result == MergeValues(rc, r.val)
    IN  IF r.exc = "none" /\ result.exc = "none"
        THEN [pc |-> "done", data |-> result.val, ret |-> result, log |-> <<>>]
        ELSE IF r.exc = "none"
        THEN [pc |-> "done", data |-> d, ret |-> ExceptClauses(result).ret,
              log |-> ExceptClauses(result).log]
        ELSE [pc |-> "done", data |-> d, ret |-> ExceptClauses(r).ret,
              log |-> ExceptClauses(r).log]

\* ---------------------------------------------------------------- accessors
UnitlessFields == {FIELD_CONDITION_HUMIDITY, FIELD_CONDITION_WINDDIR}

get_condition(d, field) ==
    IF field \in UnitlessFields
    THEN LET r == GetKey(d, field)
         IN  IF r.exc # "none" THEN r ELSE Return(PyOr(r.val, JInt(0)))
    ELSE GetKey(d, field)

CalendarDayFields ==
    {FIELD_FORECAST_TEMPERATUREMAX, FIELD_FORECAST_TEMPERATUREMIN,
     FIELD_FORECAST_CALENDARDAYTEMPERATUREMAX, FIELD_FORECAST_CALENDARDAYTEMPERATUREMIN,
     FIELD_FORECAST_VALIDTIMEUTC}

\* The body of the try statement of get_forecast.
get_forecast_try(d, field, period) ==
    IF field \in CalendarDayFields
    THEN IndexOf(GetKey(d, field), IntHalf(period))
    ELSE IndexOf(KeyOf(IndexOf(GetKey(d, FIELD_DAYPART), 0), field), period)

get_forecast_uncaught(d, field, period) == get_forecast_try(d, field, period)
get_forecast(d, field, period) ==
    LET r == get_forecast_try(d, field, period)
    IN  IF r.exc = "IndexError" THEN Return(None) ELSE r

\* ------------------------------------------------- what the API may answer
ErrorTexts == <<"Invalid apiKey", "Rate limit exceeded", "Invalid geocode", "Unknown">>

\* An errors array of n entries {message: ...}; entry `bad` (if any) has no message.
ErrorArray(n, bad) ==
    JArr([i \in 1..n |-> IF i = bad THEN JObj(<<>>)
                         ELSE JObj([message |-> JStr(<<ErrorTexts[i]>>)])])

\* Bodies that carry nothing but an errors array: empty, well-formed, malformed.
ErrorBodies ==
    { JObj([errors |-> ErrorArray(n, bad)]) : n \in 0..MaxErrors, bad \in 0..MaxErrors }

Current1 ==
    JObj([relativeHumidity |-> JInt(55), windDirection |-> JInt(0),
          temperature |-> JInt(21), validTimeUtc |-> JInt(1000)])
Current2 ==
    JObj([relativeHumidity |-> JNull, windDirection |-> JInt(180),
          temperature |-> JNull, errors |-> JArr(<<>>)])

\* A daily forecast of n calendar days and 2n dayparts.
Forecast(n) ==
    JObj([validTimeUtc |-> JArr([i \in 1..n |-> JInt(2000 + i)]),
          temperatureMax |-> JArr([i \in 1..n |-> JInt(30 + i)]),
          daypart |-> JArr(<< JObj([precipChance |-> JArr([i \in 1..(2 * n) |-> JInt(10 * i)]),
                                    temperature |-> JArr([i \in 1..(2 * n) |-> JInt(20 + i)])]) >>)])
ForecastNoGroup ==
    JObj([temperatureMax |-> JArr(<<JInt(31)>>), temperature |-> JInt(99),
          daypart |-> JArr(<<>>)])

\* Parsed bodies (response.json()) of the two GETs.
CurrentBodies == {None, JObj(<<>>), Current1, Current2} \cup ErrorBodies
ForecastBodies ==
    {None, JObj(<<>>), ForecastNoGroup} \cup {Forecast(n) : n \in 0..MaxDays} \cup ErrorBodies

\* What one GET (session.get, then response.json) can produce: either await
\* can time out or fail in transport, or the body is parsed.
Outcomes(bodies) ==
    { [kind |-> "timeout", body |-> None], [kind |-> "client_error", body |-> None] }
    \cup { [kind |-> "json", body |-> b] : b \in bodies }
NoOutcome == [kind |-> "none", body |-> None]

\* What `await self._session.get(...)` alone can produce: a response object
\* whose body is still to be read, a timeout or a transport error.
Response == [kind |-> "response", body |-> None]
GetOutcomes ==
    { Response, [kind |-> "timeout", body |-> None], [kind |-> "client_error", body |-> None] }

\* Arguments accessor calls are made with.
ConditionFields == UnitlessFields \cup {"temperature"}
ForecastFields == {FIELD_FORECAST_TEMPERATUREMAX, FIELD_FORECAST_VALIDTIMEUTC, "precipChance"}
Periods == (0 - 1)..MaxPeriod
NoAcc == [op |-> "none", field |-> "", period |-> 0, res |-> NoRet]

\* The translation tables on disk.
TableEn == JObj([temperature |-> JStr(<<"Temperature">>)])
TableEl == JObj([temperature |-> JStr(<<"Thermokrasia">>)])
TableZh == JObj([temperature |-> JStr(<<"Wendu">>)])

\* An installation's translation directory: en.json is always there and loads;
\* el.json loads, is absent or does not parse; zh.json loads or is absent.
FileSystem(el, zh) ==
    [ path \in {Flat(TranPath(<<"en">>))}
               \cup (IF el = "absent" THEN {} ELSE {Flat(TranPath(<<"el">>))})
               \cup (IF zh = "absent" THEN {} ELSE {Flat(TranPath(<<"zh">>))})
      |-> IF path = Flat(TranPath(<<"en">>)) THEN Return(TableEn)
          ELSE IF path = Flat(TranPath(<<"zh">>)) THEN Return(TableZh)
          ELSE IF el = "loads" THEN Return(TableEl)
          ELSE Raise("HomeAssistantError", <<path>>) ]
FileSystems ==
    { FileSystem(el, zh) : el \in {"loads", "absent", "invalid"}, zh \in {"loads", "absent"} }

\* The language codes a coordinator is configured with; "de" and "pt" have no
\* file, and the last code has nothing before its dash.
Langs ==
    { <<"en", "-", "US">>, <<"el", "-", "GR">>, <<"zh", "-", "Hant", "-", "TW">>,
      <<"de">>, <<"pt", "-", "BR">>, <<"-", "x">> }
LangConfigs == { [c EXCEPT !.lang = l] : c \in Configs, l \in Langs }

\* Arguments of the small methods.
IconCodes == {26, 30, 31, 44}
Templates == {_RESOURCECURRENT, _RESOURCEFORECASTDAILY}
Features == {"forecast", "conditions"}

\* The second invocation has not been called.
NoOther ==
    [pc |-> "idle", resp_current |-> NoOutcome, resp_forecast |-> NoOutcome,
     ret |-> NoRet, log |-> <<>>]

\* ------------------------------------------------------------------ actions
\* The GETs get_weather has issued when it first suspends.
RequestsAtStartBoth ==
    <<_build_url(_RESOURCECURRENT), _build_url(_RESOURCEFORECASTDAILY)>>

RequestsAtStart == <<_build_url(_RESOURCECURRENT)>>

\* result_current kept on the instance: an invocation reads the response the
\* other invocation received, if there is one.
OwnCurrentShared(own, shared) ==
    IF shared.kind = "json" /\ shared.body # None /\ shared.body.t = "obj"
    THEN shared ELSE own

\* result_current is a local of get_weather: each invocation reads the
\* response it received itself, whatever the other invocation received.
OwnCurrent(own, shared) == own

\* __init__ with a configuration of cfgs on an installation of fss:
\* self.data = None, no refresh started.
InitWith(cfgs, fss) ==
    /\ config \in cfgs
    /\ files \in fss
    /\ _features = {}
    /\ data = None
    /\ _tranfile = get_tran_file(config.lang, files)
    /\ units_of_measurement = UnitsOfMeasurement(config.unit_system_api)
    /\ icon_condition_map = ICON_CONDITION_MAP
    /\ pc = "idle"
    /\ resp_current = NoOutcome
    /\ resp_forecast = NoOutcome
    /\ ret = NoRet
    /\ log = <<>>
    /\ before = None
    /\ stored = <<>>
    /\ acc = NoAcc
    /\ requests = <<>>
    /\ failures = 0
    /\ other = NoOther

Init == InitWith(Configs, {FileSystem("loads", "loads")})

\* The scheduler calls get_weather; the coroutine runs to its first suspension
\* point, the await of the current-conditions GET.
Start ==
    /\ pc \in {"idle", "done"}
    /\ pc' = "get_current"
    /\ before' = data
    /\ resp_current' = NoOutcome
    /\ resp_forecast' = NoOutcome
    /\ ret' = NoRet
    /\ log' = <<>>
    /\ acc' = NoAcc
    /\ requests' = RequestsAtStart
    /\ failures' = IF ret.exc = "none" /\ ret.val # None THEN 0 ELSE failures
    /\ UNCHANGED <<constructed, data, stored, _features, other>>

\* `await self._session.get` of the current-conditions GET ends: with a
\* response object the coroutine suspends again at response.json(); with a
\* timeout or a transport error it runs to its end.
SessionGetCurrentStep(o) ==
    /\ pc = "get_current"
    /\ IF o = Response
       THEN /\ pc' = "json_current"
            /\ UNCHANGED <<data, ret, log, resp_current>>
       ELSE LET s == AfterCurrent(data, _build_url(_RESOURCECURRENT), o)
            IN  /\ pc' = s.pc
                /\ data' = s.data
                /\ ret' = s.ret
                /\ log' = s.log
                /\ resp_current' = o
    /\ acc' = NoAcc
    /\ UNCHANGED <<constructed, resp_forecast, before, stored, requests, _features, other>>

SessionGetCurrent(o) == SessionGetCurrentStep(o) /\ UNCHANGED failures

\* `await response.json()` of the current-conditions GET ends with outcome o;
\* the coroutine runs to the await of the forecast GET, or ends.
RecvCurrentStep(o) ==
    /\ pc = "json_current"
    /\ LET s == AfterCurrent(data, _build_url(_RESOURCECURRENT), o)
       IN  /\ pc' = s.pc
           /\ data' = s.data
           /\ ret' = s.ret
           /\ log' = s.log
           /\ requests' = IF s.pc = "get_forecast" /\ Len(requests) = 1
                          THEN Append(requests, _build_url(_RESOURCEFORECASTDAILY))
                          ELSE requests
    /\ resp_current' = o
    /\ acc' = NoAcc
    /\ UNCHANGED <<constructed, resp_forecast, before, stored, _features, other>>

RecvCurrent(o) == RecvCurrentStep(o) /\ UNCHANGED failures

\* `await self._session.get` of the daily-forecast GET ends: with a response
\* object the coroutine suspends again at response.json(); with a timeout or a
\* transport error it runs to its end.
SessionGetForecastStep(o) ==
    /\ pc = "get_forecast"
    /\ IF o = Response
       THEN /\ pc' = "json_forecast"
            /\ UNCHANGED <<data, ret, log, resp_forecast>>
       ELSE LET rc == OwnCurrent(resp_current, other.resp_current).body
                s == AfterForecast(data, rc, _build_url(_RESOURCEFORECASTDAILY), o)
            IN  /\ pc' = s.pc
                /\ data' = s.data
                /\ ret' = s.ret
                /\ log' = s.log
                /\ resp_forecast' = o
    /\ acc' = NoAcc
    /\ UNCHANGED <<constructed, resp_current, before, stored, requests, _features, other>>

SessionGetForecast(o) == SessionGetForecastStep(o) /\ UNCHANGED failures

\* `await response.json()` of the daily-forecast GET ends with outcome o; the
\* coroutine runs to its end.
RecvForecastStep(o) ==
    /\ pc = "json_forecast"
    /\ LET url == _build_url(_RESOURCEFORECASTDAILY)
           rc == OwnCurrent(resp_current, other.resp_current).body
           s == AfterForecast(data, rc, url, o)
       IN  /\ pc' = s.pc
           /\ data' = s.data
           /\ ret' = s.ret
           /\ log' = s.log
           /\ stored' = IF FetchBlock(url, o, "NO FORECAST RESULT").exc = "none"
                        THEN <<resp_current.body, o.body>>
                        ELSE stored
    /\ resp_forecast' = o
    /\ acc' = NoAcc
    /\ UNCHANGED <<constructed, resp_current, before, requests, _features, other>>

RecvForecast(o) == RecvForecastStep(o) /\ UNCHANGED failures

\* The host reads a current-condition field.
GetCondition(field) ==
    /\ acc' = [op |-> "get_condition", field |-> field, period |-> 0,
               res |-> get_condition(data, field)]
    /\ UNCHANGED <<constructed, data, pc, resp_current, resp_forecast, ret, log, before,
                   stored, requests, _features, failures, other>>

\* The host reads a forecast field.
GetForecast(field, period) ==
    /\ acc' = [op |-> "get_forecast", field |-> field, period |-> period,
               res |-> get_forecast(data, field, period)]
    /\ UNCHANGED <<constructed, data, pc, resp_current, resp_forecast, ret, log, before,
                   stored, requests, _features, failures, other>>

\* The host maps an icon code (kept in the period slot of acc) to a condition.
IconcodeToCondition(icon_code) ==
    /\ acc' = [op |-> "iconcode_to_condition", field |-> "", period |-> icon_code,
               res |-> _iconcode_to_condition(icon_condition_map, icon_code)]
    /\ UNCHANGED <<constructed, data, pc, resp_current, resp_forecast, ret, log, before,
                   stored, requests, _features, failures, other>>

\* _build_url is called on a template (acc keeps the template's endpoint).
BuildUrl(baseurl) ==
    /\ acc' = [op |-> "build_url", field |-> baseurl[1], period |-> 0,
               res |-> Return(JStr(_build_url(baseurl)))]
    /\ UNCHANGED <<constructed, data, pc, resp_current, resp_forecast, ret, log, before,
                   stored, requests, _features, failures, other>>

Next ==
    \/ Start
    \/ \E o \in GetOutcomes : SessionGetCurrent(o)
    \/ \E o \in Outcomes(CurrentBodies) : RecvCurrent(o)
    \/ \E o \in GetOutcomes : SessionGetForecast(o)
    \/ \E o \in Outcomes(ForecastBodies) : RecvForecast(o)
    \/ \E field \in ConditionFields : GetCondition(field)
    \/ \E field \in ForecastFields, period \in Periods : GetForecast(field, period)

Spec == Init /\ [][Next]_vars

\* ------------------------------------- construction on every installation
\* Answers of the API for the refreshes that follow a construction.
FewCurrent ==
    { [kind |-> "timeout", body |-> None], [kind |-> "json", body |-> Current1],
      [kind |-> "json", body |-> JObj([errors |-> ErrorArray(1, 0)])] }
FewForecast ==
    { [kind |-> "client_error", body |-> None], [kind |-> "json", body |-> Forecast(1)] }

InitConstruct == InitWith(LangConfigs, FileSystems)

NextConstruct ==
    \/ Start
    \/ \E o \in GetOutcomes : SessionGetCurrent(o)
    \/ \E o \in FewCurrent : RecvCurrent(o)
    \/ \E o \in GetOutcomes : SessionGetForecast(o)
    \/ \E o \in FewForecast : RecvForecast(o)
    \/ \E baseurl \in Templates : BuildUrl(baseurl)

SpecConstruct == InitConstruct /\ [][NextConstruct]_vars

\* ------------------------------------------ the host's use over many cycles
\* Answers of the API in a run of refreshes: failures of each kind and
\* successes that differ.
HostCurrent ==
    { [kind |-> "timeout", body |-> None], [kind |-> "json", body |-> None],
      [kind |-> "json", body |-> Current1], [kind |-> "json", body |-> Current2],
      [kind |-> "json", body |-> JObj([errors |-> ErrorArray(1, 0)])],
      [kind |-> "json", body |-> JObj([errors |-> ErrorArray(1, 1)])] }
HostForecast ==
    { [kind |-> "client_error", body |-> None], [kind |-> "json", body |-> Forecast(1)],
      [kind |-> "json", body |-> Forecast(2)],
      [kind |-> "json", body |-> JObj([errors |-> ErrorArray(2, 0)])] }

\* One more refresh has ended without a snapshot (counted up to MaxFailures).
Failed(n) == IF n < MaxFailures THEN n + 1 ELSE n

\* A step that ends get_weather without a snapshot is counted.
CountFailure ==
    failures' = IF pc # "done" /\ pc' = "done" /\ ~(ret'.exc = "none" /\ ret'.val # None)
                THEN Failed(failures)
                ELSE failures

\* The refresh steps, counting the refreshes that end without a snapshot.
SessionGetCurrentCounted(o) == SessionGetCurrentStep(o) /\ CountFailure

RecvCurrentCounted(o) == RecvCurrentStep(o) /\ CountFailure

SessionGetForecastCounted(o) == SessionGetForecastStep(o) /\ CountFailure

RecvForecastCounted(o) == RecvForecastStep(o) /\ CountFailure

\* The host registers a feature.
RequestFeature(feature) ==
    /\ _features' = request_feature(_features, feature)
    /\ acc' = [op |-> "request_feature", field |-> feature, period |-> 0,
               res |-> Return(None)]
    /\ UNCHANGED <<constructed, data, pc, resp_current, resp_forecast, ret, log, before,
                   stored, requests, failures, other>>

NextHost ==
    \/ Start
    \/ \E o \in GetOutcomes : SessionGetCurrentCounted(o)
    \/ \E o \in HostCurrent : RecvCurrentCounted(o)
    \/ \E o \in GetOutcomes : SessionGetForecastCounted(o)
    \/ \E o \in HostForecast : RecvForecastCounted(o)
    \/ \E field \in ConditionFields : GetCondition(field)
    \/ \E field \in ForecastFields, period \in Periods : GetForecast(field, period)
    \/ \E icon_code \in IconCodes : IconcodeToCondition(icon_code)
    \/ \E baseurl \in Templates : BuildUrl(baseurl)
    \/ \E feature \in Features : RequestFeature(feature)

SpecHost == Init /\ [][NextHost]_vars

\* -------------------------------------------- two overlapping invocations
\* Answers of the API to two invocations that overlap.
OverlapCurrent ==
    { [kind |-> "timeout", body |-> None], [kind |-> "json", body |-> Current1],
      [kind |-> "json", body |-> Current2],
      [kind |-> "json", body |-> JObj([errors |-> ErrorArray(1, 0)])] }
OverlapForecast ==
    { [kind |-> "client_error", body |-> None], [kind |-> "json", body |-> None],
      [kind |-> "json", body |-> Forecast(1)], [kind |-> "json", body |-> Forecast(2)] }

\* get_weather is called a second time, whatever the first invocation is doing.
OtherStart ==
    /\ other.pc \in {"idle", "done"}
    /\ other' = [NoOther EXCEPT !.pc = "get_current"]
    /\ acc' = NoAcc
    /\ UNCHANGED <<constructed, data, pc, resp_current, resp_forecast, ret, log, before,
                   stored, requests, _features, failures>>

\* The second invocation's `await self._session.get` ends (current conditions).
OtherSessionGetCurrent(o) ==
    /\ other.pc = "get_current"
    /\ IF o = Response
       THEN /\ other' = [other EXCEPT !.pc = "json_current"]
            /\ UNCHANGED data
       ELSE LET s == AfterCurrent(data, _build_url(_RESOURCECURRENT), o)
            IN  /\ other' = [pc |-> s.pc, resp_current |-> o, resp_forecast |-> NoOutcome,
                             ret |-> s.ret, log |-> s.log]
                /\ data' = s.data
    /\ acc' = NoAcc
    /\ UNCHANGED <<constructed, pc, resp_current, resp_forecast, ret, log, before,
                   stored, requests, _features, failures>>

\* The second invocation's `await response.json()` ends (current conditions).
OtherRecvCurrent(o) ==
    /\ other.pc = "json_current"
    /\ LET s == AfterCurrent(data, _build_url(_RESOURCECURRENT), o)
       IN  /\ other' = [pc |-> s.pc, resp_current |-> o, resp_forecast |-> NoOutcome,
                        ret |-> s.ret, log |-> s.log]
           /\ data' = s.data
    /\ acc' = NoAcc
    /\ UNCHANGED <<constructed, pc, resp_current, resp_forecast, ret, log, before,
                   stored, requests, _features, failures>>

\* The second invocation's `await self._session.get` ends (daily forecast).
OtherSessionGetForecast(o) ==
    /\ other.pc = "get_forecast"
    /\ IF o = Response
       THEN /\ other' = [other EXCEPT !.pc = "json_forecast"]
            /\ UNCHANGED data
       ELSE LET rc == OwnCurrent(other.resp_current, resp_current).body
                s == AfterForecast(data, rc, _build_url(_RESOURCEFORECASTDAILY), o)
            IN  /\ other' = [pc |-> s.pc, resp_current |-> other.resp_current,
                             resp_forecast |-> o, ret |-> s.ret, log |-> s.log]
                /\ data' = s.data
    /\ acc' = NoAcc
    /\ UNCHANGED <<constructed, pc, resp_current, resp_forecast, ret, log, before,
                   stored, requests, _features, failures>>

\* The second invocation's `await response.json()` ends (daily forecast).
OtherRecvForecast(o) ==
    /\ other.pc = "json_forecast"
    /\ LET url == _build_url(_RESOURCEFORECASTDAILY)
           rc == OwnCurrent(other.resp_current, resp_current).body
           s == AfterForecast(data, rc, url, o)
       IN  /\ other' = [pc |-> s.pc, resp_current |-> other.resp_current,
                        resp_forecast |-> o, ret |-> s.ret, log |-> s.log]
           /\ data' = s.data
           /\ stored' = IF FetchBlock(url, o, "NO FORECAST RESULT").exc = "none"
                        THEN <<other.resp_current.body, o.body>>
                        ELSE stored
    /\ acc' = NoAcc
    /\ UNCHANGED <<constructed, pc, resp_current, resp_forecast, ret, log, before,
                   requests, _features, failures>>

NextOverlap ==
    \/ Start
    \/ \E o \in GetOutcomes : SessionGetCurrent(o)
    \/ \E o \in OverlapCurrent : RecvCurrent(o)
    \/ \E o \in GetOutcomes : SessionGetForecast(o)
    \/ \E o \in OverlapForecast : RecvForecast(o)
    \/ OtherStart
    \/ \E o \in GetOutcomes : OtherSessionGetCurrent(o)
    \/ \E o \in OverlapCurrent : OtherRecvCurrent(o)
    \/ \E o \in GetOutcomes : OtherSessionGetForecast(o)
    \/ \E o \in OverlapForecast : OtherRecvForecast(o)

SpecOverlap == Init /\ [][NextOverlap]_vars

\* ------------------------------------------------------------- properties
\* The keys of a dict value.
Keys(x) == DOMAIN x.v

\* get_weather has ended.
Done == pc = "done"

\* The body is an object whose errors field is a non-empty array.
HasErrors(body) ==
    /\ body.t = "obj"
    /\ "errors" \in Keys(body)
    /\ body.v["errors"].t = "arr"
    /\ Len(body.v["errors"].v) > 0

\* A GET that timed out, failed in transport, gave a null body or reported errors.
FailedOutcome(o) ==
    \/ o.kind \in {"timeout", "client_error"}
    \/ o.kind = "json" /\ (o.body = None \/ HasErrors(o.body))

\* A JSON body was received and it is null.
NullBody(o) == o.kind = "json" /\ o.body = None

\* A JSON body was received and it is null or the empty object.
NullOrEmptyBody(o) == o.kind = "json" /\ (o.body = None \/ o.body = JObj(<<>>))

\* get_weather returned nothing (fell off its end), without raising.
ReturnedNothing == ret = Return(None)

\* get_weather returned a snapshot.
ReturnedSnapshot == ret.exc = "none" /\ ret.val # None

\* sub occurs in text.
Contains(text, sub) ==
    \E i \in 0..(Len(text) - Len(sub)) : SubSeq(text, i + 1, i + Len(sub)) = sub

\* m is the right-biased merge of the dict values a and b, stated key by key.
IsRightBiasedMerge(m, a, b) ==
    /\ m.t = "obj"
    /\ Keys(m) = Keys(a) \cup Keys(b)
    /\ \A k \in Keys(b) : m.v[k] = b.v[k]
    /\ \A k \in Keys(a) \ Keys(b) : m.v[k] = a.v[k]

\* C1: a refresh in which either GET times out, fails in transport, returns a
\* null body or a body with a non-empty errors array leaves self.data as it was
\* before the refresh and returns nothing.
C1_FailedRefreshKeepsSnapshot ==
    (Done /\ (FailedOutcome(resp_current) \/ FailedOutcome(resp_forecast)))
        => (data = before /\ ReturnedNothing)

\* C2: in every state self.data is None or exactly the merge of the two
\* responses of one refresh that passed both validations; never the
\* current-conditions response alone or a partial merge.
C2_SnapshotNoneOrOneMerge ==
    \/ data = None
    \/ /\ stored # <<>>
       /\ IsRightBiasedMerge(data, stored[1], stored[2])

\* C2 witness: a snapshot is stored and a later refresh, whose current-conditions
\* response differs from the stored one, waits for its forecast.
C2_Witness ==
    /\ pc \in {"get_forecast", "json_forecast"}
    /\ data # None
    /\ stored # <<>>
    /\ resp_current.body # stored[1]
    /\ resp_current.body # data

\* C3: get_weather never ends by raising: for every outcome of either GET it
\* returns the new snapshot or nothing.
C3_RefreshNeverRaises ==
    Done => (ret.exc = "none" /\ (ret.val = None \/ ret.val = data))

\* C4 as claimed: a parsed body that is null or the empty object, from either
\* GET, makes the refresh return nothing and keep the snapshot.
C4_NullOrEmptyBodyFails ==
    (Done /\ (NullOrEmptyBody(resp_current) \/ NullOrEmptyBody(resp_forecast)))
        => (ReturnedNothing /\ data = before)

\* C4 amended: a parsed body that is null, from either GET, makes the refresh
\* return nothing, log one error and keep the snapshot.
C4_NullBodyFails ==
    (Done /\ (NullBody(resp_current) \/ NullBody(resp_forecast)))
        => (ReturnedNothing /\ data = before /\ Len(log) = 1)

\* C4 witness: a snapshot is stored and a later refresh gets a null forecast body.
C4_Witness ==
    /\ Done
    /\ NullBody(resp_forecast)
    /\ before # None
    /\ data = before

\* The text of the failure a refresh ended with: of the exception that left
\* get_weather, or else of the error it logged.
FailureText ==
    IF ret.exc # "none" THEN ret.msg
    ELSE IF Len(log) > 0 THEN log[1].args
    ELSE <<>>

\* The refresh went past the validation of the current-conditions response.
PassedCurrent ==
    pc \in {"get_forecast", "json_forecast"} \/ (Done /\ resp_forecast # NoOutcome)

\* The errors array of a body (empty if it has none).
ErrorsOf(body) == IF HasErrors(body) THEN body.v["errors"].v ELSE <<>>

\* What C5 says of one validated response o; `passed` says the refresh went on.
ValidationClaim(o, passed) ==
    (o.kind = "json" /\ o.body # None)
    => IF ~HasErrors(o.body)
       THEN passed
       ELSE /\ ~passed
            /\ \A i \in 1..Len(ErrorsOf(o.body)) :
                 LET e == ErrorsOf(o.body)[i]
                 IN  "message" \in Keys(e) => Contains(FailureText, e.v["message"].v)

\* C5: a response without errors field or with an empty errors array passes
\* validation; one with a non-empty errors array fails, and the text of the
\* failure contains the message of every error entry.
C5_CheckErrors ==
    /\ pc \in {"get_forecast", "json_forecast", "done"}
         => ValidationClaim(resp_current, PassedCurrent)
    /\ Done => ValidationClaim(resp_forecast, ReturnedSnapshot)

\* Every entry of the errors array has a message.
WellFormedErrors(body) ==
    /\ HasErrors(body)
    /\ \A i \in 1..Len(ErrorsOf(body)) : "message" \in Keys(ErrorsOf(body)[i])

\* What C6 says of one response o fetched from url.
ErrorTextClaim(o, url) ==
    (o.kind = "json" /\ WellFormedErrors(o.body))
    => FailureText =
         <<"Error from ">> \o url \o <<": ">>
           \o Join(<<"; ">>, [i \in 1..Len(ErrorsOf(o.body)) |->
                                 ErrorsOf(o.body)[i].v["message"].v])

\* C6: for a non-empty errors array e1..en the failure text is 'Error from
\* <url>: ' followed by the messages of e1..en joined by '; ', for every n >= 1.
C6_ErrorTextPrefixedOnce ==
    Done => /\ ErrorTextClaim(resp_current, _build_url(_RESOURCECURRENT))
            /\ ErrorTextClaim(resp_forecast, _build_url(_RESOURCEFORECASTDAILY))

\* C7: after a successful refresh the snapshot has exactly the keys of the two
\* responses, with the forecast response's value for every key the forecast
\* response has and the current-conditions response's value for the others.
C7_MergeRightBiased ==
    (Done /\ ReturnedSnapshot)
    => /\ IsRightBiasedMerge(data, resp_current.body, resp_forecast.body)
       /\ ret.val = data

\* C7 witness: a successful refresh whose responses share a key with different
\* values and each have a key of their own.
C7_Witness ==
    /\ Done
    /\ ReturnedSnapshot
    /\ \E k \in Keys(resp_current.body) \cap Keys(resp_forecast.body) :
           resp_current.body.v[k] # resp_forecast.body.v[k]
    /\ Keys(resp_current.body) \ Keys(resp_forecast.body) # {}
    /\ Keys(resp_forecast.body) \ Keys(resp_current.body) # {}

\* C8: on a stored snapshot, get_condition of a unit-less field returns 0 when
\* the value is falsy or the field absent, else the value; of any other field
\* it returns the value, and None (no error) when the field is absent.
C8_GetCondition ==
    (acc.op = "get_condition" /\ data # None)
    => acc.res =
         IF acc.field \in UnitlessFields
         THEN IF acc.field \notin Keys(data) \/ ~Truthy(data.v[acc.field])
              THEN Return(JInt(0))
              ELSE Return(data.v[acc.field])
         ELSE IF acc.field \notin Keys(data) THEN Return(None)
              ELSE Return(data.v[acc.field])

\* The sequence a calendar-day field is read from, if the snapshot has one.
HasDaySequence(field) ==
    /\ data # None
    /\ field \in CalendarDayFields
    /\ field \in Keys(data)
    /\ data.v[field].t = "arr"
DaySequence(field) == data.v[field].v

\* The sequence a daypart field is read from, if the snapshot has one.
HasDaypartSequence(field) ==
    /\ data # None
    /\ field \notin CalendarDayFields
    /\ FIELD_DAYPART \in Keys(data)
    /\ data.v[FIELD_DAYPART].t = "arr"
    /\ Len(data.v[FIELD_DAYPART].v) > 0
    /\ data.v[FIELD_DAYPART].v[1].t = "obj"
    /\ field \in Keys(data.v[FIELD_DAYPART].v[1])
    /\ data.v[FIELD_DAYPART].v[1].v[field].t = "arr"
DaypartSequence(field) == data.v[FIELD_DAYPART].v[1].v[field].v

\* C9: for a period >= 0, get_forecast reads a calendar-day field at index
\* floor(period / 2) of its own sequence and any other field at index period
\* of its sequence in the first daypart group.
C9_ForecastIndexMapping ==
    (acc.op = "get_forecast" /\ acc.period >= 0)
    => /\ (HasDaySequence(acc.field) /\ acc.period \div 2 < Len(DaySequence(acc.field)))
            => acc.res = Return(DaySequence(acc.field)[(acc.period \div 2) + 1])
       /\ (HasDaypartSequence(acc.field) /\ acc.period < Len(DaypartSequence(acc.field)))
            => acc.res = Return(DaypartSequence(acc.field)[acc.period + 1])

\* C9 witness: period 3 of a calendar-day field was read from index 1 of a
\* sequence whose indices 0, 1 hold different values.
C9_Witness ==
    /\ acc.op = "get_forecast"
    /\ acc.period = 3
    /\ HasDaySequence(acc.field)
    /\ Len(DaySequence(acc.field)) >= 2
    /\ DaySequence(acc.field)[1] # DaySequence(acc.field)[2]
    /\ acc.res = Return(DaySequence(acc.field)[2])

\* The computed index is at or beyond the length of the target sequence.
IndexBeyond(field, period) ==
    \/ HasDaySequence(field) /\ period \div 2 >= Len(DaySequence(field))
    \/ HasDaypartSequence(field) /\ period >= Len(DaypartSequence(field))

\* C10: get_forecast returns None, raising nothing, whenever the computed index
\* is at or beyond the length of the target sequence, and it leaves self.data
\* unchanged.
C10_OutOfRangeReturnsNone ==
    /\ [](acc.op = "get_forecast" /\ IndexBeyond(acc.field, acc.period)
            => acc.res = Return(None))
    /\ [][(acc' # acc /\ acc'.op = "get_forecast") => data' = data]_vars

\* C10 witness: period 4 of a calendar-day field was asked of a snapshot whose
\* sequence for that field has two entries, and None came back.
C10_Witness ==
    /\ acc.op = "get_forecast"
    /\ acc.period = 4
    /\ HasDaySequence(acc.field)
    /\ Len(DaySequence(acc.field)) = 2
    /\ acc.res = Return(None)

\* How many times the piece occurs in the text.
Occurrences(text, piece) == Cardinality({ i \in 1..Len(text) : text[i] = piece })

\* The query parameters both endpoints require.
RequiredParams == {"?geocode=", "&format=", "&apiKey=", "&units=", "&language="}

\* What C11 says of the URL built from a template (current-conditions or not).
UrlClaim(url, current) ==
    /\ \A p \in RequiredParams : Occurrences(url, p) = 1
    /\ Occurrences(url, "&numericPrecision=") =
         IF current /\ config.numeric_precision # "none" THEN 1 ELSE 0

\* C11: the URL _build_url produces for each of the two templates, as a GET of
\* a refresh and as a direct call, has each of geocode, format, apiKey, units
\* and language exactly once, and numericPrecision (once) if and only if the
\* template is current-conditions and the precision mode is not 'none'.
C11_UrlParameters ==
    /\ \A i \in 1..Len(requests) : UrlClaim(requests[i], i = 1)
    /\ acc.op = "build_url"
         => UrlClaim(acc.res.val.v, acc.field = _RESOURCECURRENT[1])

\* C11 witness: with a precision mode other than 'none' a refresh has issued
\* both GETs, the first with numericPrecision and the second without.
C11_Witness ==
    /\ Len(requests) = 2
    /\ config.numeric_precision # "none"
    /\ Occurrences(requests[1], "&numericPrecision=") = 1
    /\ Occurrences(requests[2], "&numericPrecision=") = 0
    /\ requests[1][1] = _RESOURCECURRENT[1]
    /\ requests[2][1] = _RESOURCEFORECASTDAILY[1]

\* The positions of the map whose icon-code set holds the code.
Holders(icon_code) ==
    { i \in 1..Len(icon_condition_map) : icon_code \in icon_condition_map[i].iconcodes }

\* C12: iconcode_to_condition(code) returns the condition at the first position
\* of the map, in iteration order, whose set holds the code (no earlier
\* position holds it); if no set holds the code it returns None and raises
\* nothing; the map stays what it was.
C12_IconcodeFirstMatch ==
    /\ icon_condition_map = ICON_CONDITION_MAP
    /\ acc.op = "iconcode_to_condition"
         => IF Holders(acc.period) = {}
            THEN acc.res = Return(None)
            ELSE \E i \in Holders(acc.period) :
                    /\ \A j \in 1..(i - 1) : j \notin Holders(acc.period)
                    /\ acc.res = Return(JStr(<<icon_condition_map[i].condition>>))

\* C12 witness: code 30, held by the sets of two conditions, was mapped to the
\* one that comes first.
C12_Witness ==
    /\ acc.op = "iconcode_to_condition"
    /\ acc.period = 30
    /\ Cardinality(Holders(30)) = 2
    /\ acc.res = Return(JStr(<<"cloudy">>))

\* The file named after the language subtag of the configured language code.
LangFile ==
    LET n == CHOOSE n \in 0..Len(config.lang) :
                 /\ \A i \in 1..n : config.lang[i] # "-"
                 /\ n = Len(config.lang) \/ config.lang[n + 1] = "-"
    IN  Flat(tfiledir) \o Flat(SubSeq(config.lang, 1, n)) \o ".json"

\* The file is on disk and parses.
FileLoads(path) == path \in DOMAIN files /\ files[path].exc = "none"

\* C13: construction never ends with a translation-load failure, and whenever
\* the file of the configured language's subtag is missing or fails to load,
\* the table the coordinator holds is the content of en.json.
C13_TranslationFallback ==
    /\ _tranfile.exc = "none"
    /\ ~FileLoads(LangFile) => _tranfile = files[Flat(tfiledir) \o "en.json"]

\* C13 witness: the language is el-GR, el.json is on disk but does not parse,
\* and the coordinator, refreshed since, holds the en table.
C13_Witness ==
    /\ config.lang = <<"el", "-", "GR">>
    /\ LangFile \in DOMAIN files
    /\ files[LangFile].exc = "HomeAssistantError"
    /\ _tranfile = Return(TableEn)
    /\ Done

\* C14: with API unit-system code 'm' the coordinator's units are (Celsius,
\* mm, m, km/h, mbar, mm/h, %), with 'e' they are (Fahrenheit, in, ft, mph,
\* inHg, in/h, %), in every state: after construction and after every
\* refresh step and accessor call.
C14_UnitsOfMeasurement ==
    /\ config.unit_system_api = "m"
         => units_of_measurement =
              <<"UnitOfTemperature.CELSIUS", "UnitOfLength.MILLIMETERS", "UnitOfLength.METERS",
                "UnitOfSpeed.KILOMETERS_PER_HOUR", "UnitOfPressure.MBAR",
                "UnitOfVolumetricFlux.MILLIMETERS_PER_HOUR", "PERCENTAGE">>
    /\ config.unit_system_api = "e"
         => units_of_measurement =
              <<"UnitOfTemperature.FAHRENHEIT", "UnitOfLength.INCHES", "UnitOfLength.FEET",
                "UnitOfSpeed.MILES_PER_HOUR", "UnitOfPressure.INHG",
                "UnitOfVolumetricFlux.INCHES_PER_HOUR", "PERCENTAGE">>

\* C14 witness: a coordinator built with code 'e' has stored a snapshot and
\* answered get_forecast, and its units are the imperial ones.
C14_Witness ==
    /\ config.unit_system_api = "e"
    /\ units_of_measurement[1] = "UnitOfTemperature.FAHRENHEIT"
    /\ units_of_measurement[4] = "UnitOfSpeed.MILES_PER_HOUR"
    /\ data # None
    /\ acc.op = "get_forecast"

\* C15: a refresh issues at most two GETs, the current-conditions one first;
\* while that one is outstanding the forecast GET has not been issued; the
\* forecast GET has been issued only if the current-conditions GET produced a
\* body that passed validation; and a refresh whose current-conditions GET
\* timed out, failed in transport or failed validation has issued that GET only.
C15_ForecastAfterCurrent ==
    /\ Len(requests) <= 2
    /\ Len(requests) >= 1 => requests[1][1] = _RESOURCECURRENT[1]
    /\ pc \in {"get_current", "json_current"} => Len(requests) = 1
    /\ Len(requests) = 2
         => /\ requests[2][1] = _RESOURCEFORECASTDAILY[1]
            /\ resp_current.kind = "json"
            /\ resp_current.body # None
            /\ ~HasErrors(resp_current.body)
    /\ (pc \in {"get_forecast", "json_forecast", "done"} /\ FailedOutcome(resp_current))
         => Len(requests) = 1

\* C15 witness: a refresh ended on a current-conditions response with a
\* non-empty errors array, after an earlier refresh had issued both GETs and
\* stored a snapshot, and the forecast GET was not issued.
C15_Witness ==
    /\ Done
    /\ resp_current.kind = "json"
    /\ HasErrors(resp_current.body)
    /\ before # None
    /\ Len(requests) = 1

\* The GET produced a body that passes the null check and _check_errors.
Passed(o) == o.kind = "json" /\ o.body # None /\ ~HasErrors(o.body)

\* C16: whatever refreshes came before, however many of them failed in a row,
\* a refresh whose two GETs both produce bodies that pass validation ends with
\* self.data being the merge of the two bodies of this refresh, and returns it;
\* and after every refresh, failed or not, the next one can be started.
C16_SuccessAfterFailures ==
    /\ (Done /\ Passed(resp_current) /\ Passed(resp_forecast))
         => /\ IsRightBiasedMerge(data, resp_current.body, resp_forecast.body)
            /\ stored = <<resp_current.body, resp_forecast.body>>
            /\ ret = Return(data)
    /\ Done => ENABLED Start

\* C16 witness: after a stored snapshot and then two failed refreshes
\* or more in a row, a refresh succeeded and replaced the snapshot by another.
C16_Witness ==
    /\ Done
    /\ Passed(resp_current)
    /\ Passed(resp_forecast)
    /\ failures >= 2
    /\ before # None
    /\ data # before
    /\ ret = Return(data)

\* The calls that only read.
ReadOnlyOps == {"get_condition", "get_forecast", "iconcode_to_condition", "build_url"}

\* C17: no step of a refresh and no call of get_condition, get_forecast,
\* iconcode_to_condition, build_url or request_feature changes the
\* configuration; the four read-only calls leave self.data unchanged;
\* request_feature changes nothing but the feature set, which holds the
\* feature afterwards, has lost none, and is unchanged if it already held it.
C17_Frame ==
    [][ /\ config' = config
        /\ acc'.op \in ReadOnlyOps => (data' = data /\ _features' = _features)
        /\ acc'.op = "request_feature"
             => /\ UNCHANGED <<constructed, data, pc, resp_current, resp_forecast,
                               ret, log, stored>>
                /\ acc'.field \in _features'
                /\ _features \subseteq _features'
                /\ acc'.field \in _features => _features' = _features ]_vars

\* C17 witness: with a snapshot stored, a feature that was already registered,
\* next to another one, has been registered again.
C17_Witness ==
    /\ acc.op = "request_feature"
    /\ acc.field \in _features
    /\ Cardinality(_features) = 2
    /\ data # None
    /\ Done

\* An invocation went from awaiting its forecast to its end in this step,
\* received rc and rf itself, both passing validation, and returned r.
StoredBy(pcNow, pcNext, rc, rf, r) ==
    /\ pcNow = "json_forecast"
    /\ pcNext = "done"
    /\ Passed(rc)
    /\ Passed(rf)
    /\ IsRightBiasedMerge(data', rc.body, rf.body)
    /\ r = Return(data')

\* C18: with two invocations of get_weather interleaved at their awaits,
\* self.data is in every state None or the merge of the two responses one
\* single invocation received, and every step that changes self.data is the
\* successful end of one invocation storing the merge of its own two responses:
\* no step of a failing invocation changes it.
C18_OverlapKeepsOneMerge ==
    /\ [](\/ data = None
          \/ /\ stored # <<>>
             /\ IsRightBiasedMerge(data, stored[1], stored[2]))
    /\ [][data' # data
            => \/ StoredBy(pc, pc', resp_current', resp_forecast', ret')
               \/ StoredBy(other.pc, other'.pc, other'.resp_current,
                           other'.resp_forecast, other'.ret)]_vars

\* C18 witness: while the first invocation waited for its forecast, the second
\* one, with a different current-conditions response, stored its snapshot; the
\* first then failed and the second's snapshot is still stored.
C18_Witness ==
    /\ Done
    /\ Passed(resp_current)
    /\ ReturnedNothing
    /\ other.pc = "done"
    /\ other.ret = Return(data)
    /\ other.resp_current.body # resp_current.body
    /\ data # before
    /\ IsRightBiasedMerge(data, other.resp_current.body, other.resp_forecast.body)

====
